---- MODULE Spec2Model ----
(***************************************************************************)
(* Forensic Pulse client: the response mapper (data/mappers.ts), the graph *)
(* element builder and simulation overlay of NetworkGraph, the App state   *)
(* (App.tsx), the upload screen and the what-if simulator panel.           *)
(*                                                                         *)
(* Text (ids, form fields) is a sequence of one-character strings, so that *)
(* trim, parseFloat, toString and padStart are computed, not assumed.      *)
(* A JS null/undefined object is Null; a JS undefined string is Undefined. *)
(***************************************************************************)
EXTENDS Integers, Sequences, FiniteSets, TLC

VARIABLES
    \* App (App.tsx)
    hasAnalyzed, currentView, selectedAccountId, analysisResponse,
    simulatorOpen, simulationResult,
    \* whether a render of App threw, which unmounts the whole tree
    crashed,
    accounts, rings, transactions,
    \* UploadScreen
    file, processing, uploadError, analyzeCall, analyzeTimer,
    \* SimulatorPanel
    sender, receiver, amount, loading, error, result, history,
    \* SimulatorPanel: the account suggestions (its `accounts` state)
    suggestions,
    \* NetworkGraph
    hoveredNode, filterRingsOnly, elements,
    \* the network: simulate calls not yet resolved, and the engine's id counter
    inflight, nextId,
    \* whether fetchAccounts calls of the mounted panel are outstanding
    accountsCall,
    \* RingsTable
    filterPattern, searchTerm

appVars    == <<hasAnalyzed, currentView, selectedAccountId, analysisResponse,
                simulatorOpen, simulationResult, crashed>>
projVars   == <<accounts, rings, transactions>>
uploadVars == <<file, processing, uploadError, analyzeCall, analyzeTimer>>
formVars   == <<sender, receiver, amount>>
panelVars  == <<sender, receiver, amount, loading, error, result, history>>
graphVars  == <<hoveredNode, filterRingsOnly>>
netVars    == <<inflight, nextId>>
suggestVars == <<suggestions, accountsCall>>
tableVars  == <<filterPattern, searchTerm>>
vars == <<appVars, projVars, uploadVars, panelVars, graphVars, elements, netVars,
         suggestVars, tableVars>>

Null == [null |-> TRUE]
Undefined == <<"undefined">>

(***************************************************************************)
(* Bounds of the model.                                                    *)
(***************************************************************************)
MaxEdges == 2
MaxRings == 2
MaxSubmits == 6
MaxOutstanding == 2

(***************************************************************************)
(* Text helpers (JavaScript String / Number built-ins).                    *)
(***************************************************************************)
Digits == <<"0", "1", "2", "3", "4", "5", "6", "7", "8", "9">>

IsDigit(c) == \E i \in 1..10 : Digits[i] = c

DigitValue(c) == (CHOOSE i \in 1..10 : Digits[i] = c) - 1

IsSpace(c) == c = " "

RECURSIVE trimStart(_)
trimStart(s) ==
    IF s # <<>> /\ IsSpace(Head(s)) THEN trimStart(Tail(s)) ELSE s

RECURSIVE trimEnd(_)
trimEnd(s) ==
    IF s # <<>> /\ IsSpace(s[Len(s)]) THEN trimEnd(SubSeq(s, 1, Len(s) - 1)) ELSE s

trim(s) == trimEnd(trimStart(s))

\* The longest prefix of s made of decimal digits.
RECURSIVE digitPrefix(_)
digitPrefix(s) ==
    IF s # <<>> /\ IsDigit(Head(s)) THEN <<Head(s)>> \o digitPrefix(Tail(s)) ELSE <<>>

RECURSIVE digitsToNat(_, _)
digitsToNat(s, acc) ==
    IF s = <<>> THEN acc ELSE digitsToNat(Tail(s), acc * 10 + DigitValue(Head(s)))

NaN == [nan |-> TRUE, val |-> 0]
Num(n) == [nan |-> FALSE, val |-> n]

\* parseFloat on texts without fraction or exponent: leading white space is
\* skipped, an optional sign and the leading digits are read, the rest ignored;
\* NaN when no digit is read.
parseFloat(s) ==
    LET t == trimStart(s)
        neg == t # <<>> /\ Head(t) = "-"
        u == IF t # <<>> /\ Head(t) \in {"-", "+"} THEN Tail(t) ELSE t
        d == digitPrefix(u)
    IN IF d = <<>> THEN NaN
       ELSE Num(IF neg THEN 0 - digitsToNat(d, 0) ELSE digitsToNat(d, 0))

\* JS x > 0 on a number that may be NaN.
GreaterThanZero(x) == ~x.nan /\ x.val > 0

RECURSIVE natToString(_)
natToString(n) ==
    IF n < 10 THEN <<Digits[n + 1]>> ELSE natToString(n \div 10) \o <<Digits[(n % 10) + 1]>>

toString(n) == IF n < 0 THEN <<"-">> \o natToString(0 - n) ELSE natToString(n)

RECURSIVE padStart(_, _, _)
padStart(s, n, c) == IF Len(s) >= n THEN s ELSE padStart(<<c>> \o s, n, c)

\* s.slice(-n)
sliceLast(s, n) == IF Len(s) <= n THEN s ELSE SubSeq(s, Len(s) - n + 1, Len(s))

\* JS truthiness of an optional string
Truthy(s) == s # Undefined /\ s # <<>>

SeqToSet(s) == {s[i] : i \in 1..Len(s)}

\* accts.find(a => a.id === id) used as a condition
findById(accts, id) == \E i \in 1..Len(accts) : accts[i].id = id

(***************************************************************************)
(* Response Mapper (data/mappers.ts).                                      *)
(***************************************************************************)

\* new Map(suspicious_accounts.map(a => [a.account_id, a])).get(id):
\* a later entry of the same id replaces an earlier one.
RECURSIVE accountScoreMapGet(_, _)
accountScoreMapGet(suspicious_accounts, id) ==
    IF suspicious_accounts = <<>> THEN Null
    ELSE LET last == suspicious_accounts[Len(suspicious_accounts)]
         IN IF last.account_id = id THEN last
            ELSE accountScoreMapGet(
                     SubSeq(suspicious_accounts, 1, Len(suspicious_accounts) - 1), id)

edgeConnectionsSameTarget(edge, id) ==
    (IF edge.source = id
        THEN <<[targetId |-> edge.target, direction |-> "out", amount |-> edge.total_amount]>>
        ELSE <<>>)
    \o
    (IF edge.target = id
        THEN <<[targetId |-> edge.target, direction |-> "in", amount |-> edge.total_amount]>>
        ELSE <<>>)

\* The two entries one edge pushes into connectionsMap, restricted to key id.
edgeConnections(edge, id) ==
    (IF edge.source = id
        THEN <<[targetId |-> edge.target, direction |-> "out", amount |-> edge.total_amount]>>
        ELSE <<>>)
    \o
    (IF edge.target = id
        THEN <<[targetId |-> edge.source, direction |-> "in", amount |-> edge.total_amount]>>
        ELSE <<>>)

\* connectionsMap.get(id) || [] after the loop over graph.edges
RECURSIVE connectionsMapGet(_, _)
connectionsMapGet(edges, id) ==
    IF edges = <<>> THEN <<>>
    ELSE edgeConnections(Head(edges), id) \o connectionsMapGet(Tail(edges), id)

nodeRingMapSetLastWins(map, memberId, ring_id) ==
    [k \in DOMAIN map \cup {memberId} |-> IF k = memberId THEN ring_id ELSE map[k]]

\* One step of the inner loop: if (!nodeRingMap.has(memberId)) set(memberId, ring_id).
\* The map is a function from the ids it holds to ring ids.
nodeRingMapSet(map, memberId, ring_id) ==
    IF memberId \in DOMAIN map THEN map
    ELSE [k \in DOMAIN map \cup {memberId} |-> IF k = memberId THEN ring_id ELSE map[k]]

RECURSIVE nodeRingMapMembers(_, _, _)
nodeRingMapMembers(map, members, ring_id) ==
    IF members = <<>> THEN map
    ELSE nodeRingMapMembers(nodeRingMapSet(map, Head(members), ring_id),
                            Tail(members), ring_id)

RECURSIVE nodeRingMapRings(_, _)
nodeRingMapRings(map, fraud_rings) ==
    IF fraud_rings = <<>> THEN map
    ELSE nodeRingMapRings(
             nodeRingMapMembers(map, Head(fraud_rings).member_accounts,
                                Head(fraud_rings).ring_id),
             Tail(fraud_rings))

EmptyMap == [k \in {} |-> Undefined]

buildNodeRingMap(fraud_rings) == nodeRingMapRings(EmptyMap, fraud_rings)

mapGet(map, k) == IF k \in DOMAIN map THEN map[k] ELSE Undefined

RECURSIVE sumAmounts(_)
sumAmounts(cs) == IF cs = <<>> THEN 0 ELSE Head(cs).amount + sumAmounts(Tail(cs))

Min(a, b) == IF a < b THEN a ELSE b
Max(a, b) == IF a > b THEN a ELSE b
Abs(a) == IF a < 0 THEN 0 - a ELSE a

\* Math.round(n / d) for n >= 0, d > 0: the nearest integer, halves up.
roundDiv(n, d) == (2 * n + d) \div (2 * d)

velocityUncapped(node) ==
    roundDiv(node.transaction_count * 20, Max(1, node.in_degree + node.out_degree))

\* Math.min(100, Math.round((transaction_count / Math.max(1, in + out)) * 20))
velocity(node) ==
    Min(100, roundDiv(node.transaction_count * 20,
                      Max(1, node.in_degree + node.out_degree)))

\* Math.min(100, Math.round((total_volume / 10000) % 100))
amtVariance(node) == Min(100, roundDiv(node.total_volume % 1000000, 10000))

fanSymmetry(node) ==
    IF node.in_degree + node.out_degree > 0
       THEN roundDiv(Abs(node.in_degree - node.out_degree) * 100,
                     node.in_degree + node.out_degree)
       ELSE 0

\* Math.min(100, Math.round(score * 0.8))
temporalCluster(score) == Min(100, roundDiv(score * 8, 10))

hopDepth(node, score) ==
    Min(100, IF Len(node.ring_ids) > 0 THEN 60 + roundDiv(score * 4, 10)
                                       ELSE roundDiv(score * 3, 10))

amtDecay(node, totalOut) ==
    Min(100, IF node.total_volume > 0
                THEN roundDiv(totalOut * 100, Max(1, node.total_volume))
                ELSE 0)

\* Number((Math.random() * 24 + 1).toFixed(1)), in tenths of an hour, for a
\* draw u / 1000 of Math.random().
avgHoldTime(u) == roundDiv(u * 240 + 10000, 1000)

mapNodeTotalsFromBackend(response, nodeRingMap, node, random) ==
    LET acct == accountScoreMapGet(response.suspicious_accounts, node.id)
        connections == connectionsMapGet(response.graph.edges, node.id)
        totalIn == node.total_volume
        totalOut == node.total_volume
        score == IF acct # Null THEN acct.suspicion_score ELSE node.suspicion_score
    IN [id |-> node.id,
        suspicionScore |-> score,
        inDegree |-> node.in_degree,
        outDegree |-> node.out_degree,
        volume |-> node.total_volume,
        ringId |-> mapGet(nodeRingMap, node.id),
        behavioralDna |-> [velocity |-> velocity(node),
                           amtVariance |-> amtVariance(node),
                           fanSymmetry |-> fanSymmetry(node),
                           temporalCluster |-> temporalCluster(score),
                           hopDepth |-> hopDepth(node, score),
                           amtDecay |-> amtDecay(node, totalOut)],
        networkStats |-> [totalIn |-> totalIn, totalOut |-> totalOut,
                          txCount |-> node.transaction_count,
                          avgHoldTime |-> avgHoldTime(random)],
        connections |-> connections]


\* The object mapApiToAccounts builds for one graph node; random is the value
\* Math.random() returns in this iteration, in thousandths.
mapNode(response, nodeRingMap, node, random) ==
    LET acct == accountScoreMapGet(response.suspicious_accounts, node.id)
        connections == connectionsMapGet(response.graph.edges, node.id)
        totalIn == sumAmounts(SelectSeq(connections, LAMBDA c : c.direction = "in"))
        totalOut == sumAmounts(SelectSeq(connections, LAMBDA c : c.direction = "out"))
        score == IF acct # Null THEN acct.suspicion_score ELSE node.suspicion_score
    IN [id |-> node.id,
        suspicionScore |-> score,
        inDegree |-> node.in_degree,
        outDegree |-> node.out_degree,
        volume |-> node.total_volume,
        ringId |-> mapGet(nodeRingMap, node.id),
        behavioralDna |-> [velocity |-> velocity(node),
                           amtVariance |-> amtVariance(node),
                           fanSymmetry |-> fanSymmetry(node),
                           temporalCluster |-> temporalCluster(score),
                           hopDepth |-> hopDepth(node, score),
                           amtDecay |-> amtDecay(node, totalOut)],
        networkStats |-> [totalIn |-> totalIn, totalOut |-> totalOut,
                          txCount |-> node.transaction_count,
                          avgHoldTime |-> avgHoldTime(random)],
        connections |-> connections]

\* run is what the call reads from its environment: the successive values of
\* Math.random() and the clock.
mapApiToAccounts(response, run) ==
    LET nodeRingMap == buildNodeRingMap(response.fraud_rings)
    IN [i \in 1..Len(response.graph.nodes) |->
            mapNode(response, nodeRingMap, response.graph.nodes[i], run.random[i])]

PATTERN_MAP(backendType) ==
    CASE backendType = "cycle" -> "Circular Loop"
      [] backendType = "fan_in" -> "Smurfing Fan-in"
      [] backendType = "fan_out" -> "Smurfing Fan-out"
      [] backendType = "layering" -> "Layering"
      [] OTHER -> ""

mapPatternType(backendType) ==
    IF PATTERN_MAP(backendType) # "" THEN PATTERN_MAP(backendType) ELSE backendType

mapApiToRings(response) ==
    [i \in 1..Len(response.fraud_rings) |->
        LET ring == response.fraud_rings[i]
        IN [id |-> ring.ring_id,
            patternType |-> mapPatternType(ring.pattern_type),
            memberCount |-> ring.member_count,
            riskScore |-> ring.risk_score,
            accountIds |-> ring.member_accounts]]

\* `TX_${i.toString().padStart(6, '0')}` for the zero-based index i
txId(i) == <<"T", "X", "_">> \o padStart(toString(i), 6, "0")

\* new Date().toISOString() for a clock reading of now milliseconds into
\* the minute.
toISOString(now) ==
    <<"2026-01-01T00:00:">> \o padStart(toString(now \div 1000), 2, "0") \o <<".">>
        \o padStart(toString(now % 1000), 3, "0") \o <<"Z">>

mapApiToTransactions(response, run) ==
    [i \in 1..Len(response.graph.edges) |->
        LET edge == response.graph.edges[i]
        IN [id |-> txId(i - 1),
            source |-> edge.source,
            target |-> edge.target,
            amount |-> edge.total_amount,
            timestamp |-> toISOString(run.now),
            isFraud |-> edge.suspicious]]

(***************************************************************************)
(* NetworkGraph: the element list built by the graph effect.               *)
(***************************************************************************)
SIM_EDGE == <<"S", "I", "M", "_", "E", "D", "G", "E">>

activeAccountsOf(accts, filter) ==
    IF filter THEN SelectSeq(accts, LAMBDA a : Truthy(a.ringId)) ELSE accts

activeTransactionsSourceOnly(txs, active) ==
    SelectSeq(txs, LAMBDA t : findById(active, t.source))

activeTransactionsOf(txs, active) ==
    SelectSeq(txs, LAMBDA t :
        /\ findById(active, t.source)
        /\ findById(active, t.target))

nodeElementSuspiciousFrom50(a) ==
    [data |-> [id |-> a.id, risk |-> a.suspicionScore, ringId |-> a.ringId,
               label |-> sliceLast(a.id, 6)],
     classes |-> IF Truthy(a.ringId) THEN <<"ring-member">>
                 ELSE IF a.suspicionScore >= 50 THEN <<"suspicious">> ELSE <<"clean">>]

\* activeAccounts.map(a => ({ data: ..., classes: ... }))
nodeElement(a) ==
    [data |-> [id |-> a.id, risk |-> a.suspicionScore, ringId |-> a.ringId,
               label |-> sliceLast(a.id, 6)],
     classes |-> IF Truthy(a.ringId) THEN <<"ring-member">>
                 ELSE IF a.suspicionScore > 50 THEN <<"suspicious">> ELSE <<"clean">>]

edgeElement(t) ==
    [data |-> [id |-> t.id, source |-> t.source, target |-> t.target, isFraud |-> t.isFraud],
     classes |-> IF t.isFraud THEN <<"fraud-edge">> ELSE <<"normal-edge">>]

\* The list before the overlay (NetworkGraph.tsx: const elements = [...]).
baseElements(accts, txs, filter) ==
    LET active == activeAccountsOf(accts, filter)
        activeTx == activeTransactionsOf(txs, active)
    IN [i \in 1..Len(active) |-> nodeElement(active[i])]
       \o [i \in 1..Len(activeTx) |-> edgeElement(activeTx[i])]

simNode(id) ==
    [data |-> [id |-> id, risk |-> 0, ringId |-> Undefined, label |-> sliceLast(id, 6)],
     classes |-> <<"sim-node">>]

simEdge(tx) ==
    [data |-> [id |-> SIM_EDGE, source |-> tx.sender_id, target |-> tx.receiver_id,
               isFraud |-> FALSE],
     classes |-> <<"sim-edge">>]

affectedIdsOf(sim) == {sim.score_deltas[i].account_id : i \in 1..Len(sim.score_deltas)}

cycleIdsOfFirstCycle(sim) ==
    IF sim.new_cycles_created = <<>> THEN {}
    ELSE SeqToSet(sim.new_cycles_created[1].cycle_members)

\* new Set(simulationResult.new_cycles_created.flatMap(c => c.cycle_members))
cycleIdsOf(sim) ==
    UNION {SeqToSet(sim.new_cycles_created[i].cycle_members) :
               i \in 1..Len(sim.new_cycles_created)}

tagElementReplacing(el, affectedIds, cycleIds) ==
    [el EXCEPT !.classes =
        IF el.data.id \in affectedIds THEN <<"sim-affected">>
        ELSE IF el.data.id \in cycleIds THEN <<"sim-cycle">> ELSE @]

\* The tagging loop's effect on one element. Classes are the space-separated
\* tokens of the class string, in order.
tagElement(el, affectedIds, cycleIds) ==
    [el EXCEPT !.classes =
        @ \o (IF el.data.id # <<>> /\ el.data.id \in affectedIds
                 THEN <<"sim-affected">> ELSE <<>>)
          \o (IF el.data.id # <<>> /\ el.data.id \in cycleIds
                 THEN <<"sim-cycle">> ELSE <<>>)]

overlayAgainstAllAccounts(els, active, sim) ==
    IF sim = Null THEN els
    ELSE LET tx == sim.hypothetical_tx
             withSender ==
                 IF ~findById(accounts, tx.sender_id)
                    THEN Append(els, simNode(tx.sender_id)) ELSE els
             withReceiver ==
                 IF ~findById(accounts, tx.receiver_id)
                    THEN Append(withSender, simNode(tx.receiver_id)) ELSE withSender
             all == Append(withReceiver, simEdge(tx))
         IN [i \in 1..Len(all) |-> tagElement(all[i], affectedIdsOf(sim), cycleIdsOf(sim))]

\* if (simulationResult) { ... }: injected nodes and edge, then the tags.
overlay(els, active, sim) ==
    IF sim = Null THEN els
    ELSE LET tx == sim.hypothetical_tx
             withSender ==
                 IF ~findById(active, tx.sender_id)
                    THEN Append(els, simNode(tx.sender_id)) ELSE els
             withReceiver ==
                 IF ~findById(active, tx.receiver_id)
                    THEN Append(withSender, simNode(tx.receiver_id)) ELSE withSender
             all == Append(withReceiver, simEdge(tx))
         IN [i \in 1..Len(all) |-> tagElement(all[i], affectedIdsOf(sim), cycleIdsOf(sim))]

IsEdgeElement(el) == "source" \in DOMAIN el.data
IsNodeElement(el) == ~IsEdgeElement(el)

\* The elements handed to cytoscape by one run of the effect.
graphElements(accts, txs, filter, sim) ==
    overlay(baseElements(accts, txs, filter), activeAccountsOf(accts, filter), sim)

(***************************************************************************)
(* Inputs: account ids, analysis responses and engine results.             *)
(***************************************************************************)
idA == <<"A">>
idB == <<"B">>
idC == <<"C">>
\* an account the analysed graph does not hold
idN == <<"N">>

\* The ids a node of the graph view can carry (simulated nodes included).
NodeIds == {idA, idB, idC, idN}

ringIdOf(i) == <<"R">> \o toString(i)

\* Edges are aggregated by (sender, receiver) by the engine (README, "Edges
\* aggregated by (sender, receiver) pair"): one edge per ordered pair.
EdgePairs == {<<idA, idB>>, <<idB, idA>>, <<idB, idC>>, <<idA, idA>>}

EdgeChoices ==
    {[source |-> p[1], target |-> p[2], suspicious |-> (a = 100), total_amount |-> a,
      count |-> IF a = 100 THEN 1 ELSE 6] : p \in EdgePairs, a \in {100, 250}}

EdgeLists ==
    {es \in UNION {[1..n -> EdgeChoices] : n \in 0..MaxEdges} :
        \A i, j \in 1..Len(es) :
            (es[i].source = es[j].source /\ es[i].target = es[j].target) => i = j}

RingMemberLists == {<<idA, idB>>, <<idB, idC>>}

ringListOf(ms) ==
    [i \in 1..Len(ms) |-> [ring_id |-> ringIdOf(i), pattern_type |-> "cycle",
                           member_accounts |-> ms[i], member_count |-> Len(ms[i]),
                           risk_score |-> 90]]

RingLists == {ringListOf(ms) : ms \in UNION {[1..n -> RingMemberLists] : n \in 0..MaxRings}}

\* Node scores, and the suspicious-account list that overrides them.
ScoreProfiles ==
    {[scores |-> (idA :> 80 @@ idB :> 10 @@ idC :> 50), suspicious_accounts |-> <<>>],
     [scores |-> (idA :> 100 @@ idB :> 0 @@ idC :> 55), suspicious_accounts |-> <<>>],
     [scores |-> (idA :> 30 @@ idB :> 51 @@ idC :> 50),
      suspicious_accounts |->
          <<[account_id |-> idA, suspicion_score |-> 90, detected_patterns |-> <<"cycle">>]>>]}

RECURSIVE incidentSum(_, _, _)
incidentSum(edges, id, field) ==
    IF edges = <<>> THEN 0
    ELSE (IF Head(edges).source = id \/ Head(edges).target = id
             THEN Head(edges)[field] ELSE 0)
         + incidentSum(Tail(edges), id, field)

\* The engine's graph node for id: degrees, volume and ring ids agree with the
\* edges and rings of the same response.
graphNode(id, profile, edges, fraud_rings) ==
    [id |-> id,
     suspicious |-> profile.scores[id] > 50,
     suspicion_score |-> profile.scores[id],
     in_degree |-> Cardinality({i \in 1..Len(edges) : edges[i].target = id}),
     out_degree |-> Cardinality({i \in 1..Len(edges) : edges[i].source = id}),
     ring_ids |-> LET listing == SelectSeq(fraud_rings,
                                  LAMBDA r : id \in SeqToSet(r.member_accounts))
                  IN [i \in 1..Len(listing) |-> listing[i].ring_id],
     total_volume |-> incidentSum(edges, id, "total_amount"),
     transaction_count |-> incidentSum(edges, id, "count")]

analysisResponseOf(profile, edges, fraud_rings) ==
    [suspicious_accounts |-> profile.suspicious_accounts,
     fraud_rings |-> fraud_rings,
     summary |-> [total_nodes |-> 3, total_edges |-> Len(edges),
                  fraud_rings_detected |-> Len(fraud_rings)],
     graph |-> [nodes |-> <<graphNode(idA, profile, edges, fraud_rings),
                            graphNode(idB, profile, edges, fraud_rings),
                            graphNode(idC, profile, edges, fraud_rings)>>,
                edges |-> edges]]

Responses ==
    {analysisResponseOf(p, es, rs) : p \in ScoreProfiles, es \in EdgeLists, rs \in RingLists}

\* Responses whose node ring_ids disagree with the fraud_rings member lists:
\* a member of a listed ring whose node names no ring, and a node naming a
\* ring that no list holds it in.
DisagreeingResponses ==
    LET p == CHOOSE q \in ScoreProfiles : q.scores[idA] = 80
        withRing == analysisResponseOf(p, <<>>, ringListOf(<<(<<idA, idB>>)>>))
        withoutRing == analysisResponseOf(p, <<>>, <<>>)
    IN {[withRing EXCEPT !.graph.nodes[1].ring_ids = <<>>],
        [withoutRing EXCEPT !.graph.nodes[3].ring_ids = <<ringIdOf(1)>>]}

\* The pattern tags the engine uses (api.ts, ApiFraudRing.pattern_type).
BackendPatternTypes == {"cycle", "fan_in", "fan_out", "layering"}

\* Responses with two rings, of every pair of pattern tags.
PatternResponses ==
    LET p == CHOOSE q \in ScoreProfiles : q.scores[idA] = 80
        twoRings == ringListOf(<<(<<idA, idB>>), (<<idB, idC>>)>>)
    IN {analysisResponseOf(p, <<>>, [twoRings EXCEPT ![1].pattern_type = t1,
                                                    ![2].pattern_type = t2]) :
            t1 \in BackendPatternTypes, t2 \in BackendPatternTypes}

\* The responses of the graph view's specification: those without the profile
\* of extreme scores.
GraphResponses ==
    {analysisResponseOf(p, es, rs) :
         p \in {q \in ScoreProfiles : q.scores[idB] # 0}, es \in EdgeLists, rs \in RingLists}

\* What the engine computed for a hypothetical transaction.
Impacts ==
    {[score_deltas |-> <<>>, new_cycles_created |-> <<>>],
     [score_deltas |-> <<[account_id |-> idA, delta |-> 5], [account_id |-> idN, delta |-> 9]>>,
      new_cycles_created |-> <<[cycle_members |-> <<idA, idB, idN>>],
                               [cycle_members |-> <<idB, idC>>]>>]}

simulationResultOf(id, sender_id, receiver_id, amt, impact) ==
    [simulation_id |-> id,
     hypothetical_tx |-> [sender_id |-> sender_id, receiver_id |-> receiver_id, amount |-> amt],
     score_deltas |-> impact.score_deltas,
     new_cycles_created |-> impact.new_cycles_created]

SimEndpoints == {<<idA, idB>>, <<idC, idN>>, <<idN, idN>>}

\* Simulate calls a SimulatorPanel issued before the last reset, still outstanding.
StaleCalls ==
    {[id |-> 0, live |-> FALSE, sender_id |-> e[1], receiver_id |-> e[2], amount |-> 500] :
         e \in SimEndpoints}

\* The responses and engine answers of a session (Spec).
EngineResponses ==
    {analysisResponseOf(
         CHOOSE p \in ScoreProfiles : p.suspicious_accounts = <<>>,
         <<[source |-> idA, target |-> idB, suspicious |-> TRUE, total_amount |-> 100,
            count |-> 1]>>,
         ringListOf(<<(<<idA, idB>>)>>)),
     analysisResponseOf(
         CHOOSE p \in ScoreProfiles : p.suspicious_accounts # <<>>,
         <<[source |-> idB, target |-> idC, suspicious |-> FALSE, total_amount |-> 250,
            count |-> 1]>>,
         <<>>)}

\* The response of a session with the simulator, upload failures and resets (Spec).
SessionResponses == {r \in EngineResponses : r.fraud_rings # <<>>}

\* r without one of its properties.
without(r, field) == [k \in DOMAIN r \ {field} |-> r[k]]

\* Payloads of a 2xx analyze response that lack required structure.
MalformedResponses ==
    LET r == analysisResponseOf(
                 CHOOSE p \in ScoreProfiles : p.suspicious_accounts # <<>>,
                 <<[source |-> idA, target |-> idB, suspicious |-> TRUE,
                    total_amount |-> 100, count |-> 1]>>,
                 ringListOf(<<(<<idA, idB>>)>>))
    IN {without(r, f) : f \in {"graph", "summary", "fraud_rings", "suspicious_accounts"}}

EngineImpacts == {[score_deltas |-> <<[account_id |-> idA, delta |-> 5]>>, new_cycles_created |-> <<>>]}

\* What one run of the mapper reads from Math.random() (thousandths, one draw
\* per node) and from the clock (milliseconds).
MapperRuns ==
    {[random |-> <<0, 0, 0>>, now |-> 0],
     [random |-> <<500, 250, 999>>, now |-> 1500]}

SessionRuns == {[random |-> <<500, 250, 999>>, now |-> 1500]}

\* Texts the user types into the simulator form.
SenderTexts == {<<" ">>, <<"A">>}
ReceiverTexts == {idB}
AmountTexts == {<<"0">>, <<"7">>}

\* Ways a simulate call fails: a non-2xx response (with its parsed body, Null
\* when the body is not JSON), or a rejected fetch.
SimFailures ==
    {[rejected |-> FALSE, status |-> 400, statusText |-> "Bad Request",
      body |-> [detail |-> "Unknown account"]],
     [rejected |-> FALSE, status |-> 500, statusText |-> "Internal Server Error",
      body |-> [error |-> "engine"]],
     [rejected |-> TRUE, status |-> 0, statusText |-> "", body |-> Null]}

\* Ways an analyze call fails: the same, and bodies that are not JSON, with
\* and without a status text (HTTP/2 responses carry none).
AnalyzeFailures ==
    SimFailures \cup
    {[rejected |-> FALSE, status |-> 502, statusText |-> "Bad Gateway", body |-> Null],
     [rejected |-> FALSE, status |-> 503, statusText |-> "", body |-> Null],
     [rejected |-> FALSE, status |-> 422, statusText |-> "Unprocessable Entity",
      body |-> [detail |-> ""]]}

(***************************************************************************)
(* api.ts                                                                  *)
(***************************************************************************)
\* The message of the Error analyzeFile throws.
analyzeErrorMessage(f) ==
    IF f.rejected THEN "Failed to fetch"
    ELSE LET err == IF f.body = Null THEN [detail |-> f.statusText] ELSE f.body
         IN IF "detail" \in DOMAIN err /\ err.detail # ""
               THEN err.detail
               ELSE "Analysis failed (" \o ToString(f.status) \o ")"

simulateErrorMessageStatusText(f) ==
    IF f.rejected THEN "Failed to fetch" ELSE f.statusText

\* The message of the Error simulateTransaction throws.
simulateErrorMessage(f) ==
    IF f.rejected THEN "Failed to fetch"
    ELSE LET err == IF f.body = Null THEN [detail |-> f.statusText] ELSE f.body
         IN IF "detail" \in DOMAIN err /\ err.detail # ""
               THEN err.detail
               ELSE "Simulation failed (" \o ToString(f.status) \o ")"

\* What the GET /api/accounts request meets: a rejected fetch, or a response
\* with its status and parsed body (Null when the body is not JSON).
AccountsOutcomes ==
    {[rejected |-> FALSE, status |-> 200, body |-> [accounts |-> <<idA, idB, idC>>]],
     [rejected |-> FALSE, status |-> 200, body |-> [count |-> 0]],
     [rejected |-> FALSE, status |-> 200, body |-> Null],
     [rejected |-> FALSE, status |-> 500, body |-> [detail |-> "engine down"]],
     [rejected |-> TRUE, status |-> 0, body |-> Null]}

\* The ways the request fails: non-2xx, rejected call, unparseable body.
AccountsFailures ==
    {o \in AccountsOutcomes : o.rejected \/ o.status < 200 \/ o.status > 299 \/ o.body = Null}

\* response.ok
ok(status) == status >= 200 /\ status <= 299

fetchAccountsKeepingOnError(o) ==
    IF o.rejected \/ ~ok(o.status) \/ o.body = Null
       THEN [rejected |-> TRUE]
       ELSE [rejected |-> FALSE,
             value |-> IF "accounts" \in DOMAIN o.body THEN o.body.accounts ELSE <<>>]

\* fetchAccounts: the promise it returns, rejected or resolved with a list.
fetchAccounts(o) ==
    IF o.rejected THEN [rejected |-> TRUE]
    ELSE IF ~ok(o.status) THEN [rejected |-> FALSE, value |-> <<>>]
    ELSE IF o.body = Null THEN [rejected |-> TRUE]
    ELSE [rejected |-> FALSE,
          value |-> IF "accounts" \in DOMAIN o.body THEN o.body.accounts ELSE <<>>]

(***************************************************************************)
(* NavBar                                                                  *)
(***************************************************************************)
handleExportOfProjection(response) ==
    IF response = Null THEN Null
    ELSE [download |-> "forensics_report.json",
          json |-> [accounts |-> accounts, rings |-> rings, transactions |-> transactions]]

\* NavBar.handleExport: the file offered for download. json is the document
\* JSON.stringify(analysisResponse, null, 2) writes, as the value it denotes.
handleExport(response) ==
    IF response = Null THEN Null
    ELSE [download |-> "forensics_report.json", json |-> response]

(***************************************************************************)
(* Rendering: what React recomputes after a state change.                  *)
(***************************************************************************)
\* The analysed view is on screen.
Analysed == hasAnalyzed /\ ~crashed

\* Whether a mapper throws a TypeError on the response: a property it reads or
\* iterates is missing.
mapApiToAccountsThrows(response) ==
    \/ "suspicious_accounts" \notin DOMAIN response
    \/ "graph" \notin DOMAIN response
    \/ "fraud_rings" \notin DOMAIN response
mapApiToRingsThrows(response) == "fraud_rings" \notin DOMAIN response
mapApiToTransactionsThrows(response) == "graph" \notin DOMAIN response

\* useMemo([analysisResponse]) in App
projectAccounts(response, run) ==
    IF response # Null THEN mapApiToAccounts(response, run) ELSE <<>>
projectRings(response) == IF response # Null THEN mapApiToRings(response) ELSE <<>>
projectTransactions(response, run) ==
    IF response # Null THEN mapApiToTransactions(response, run) ELSE <<>>

renderProjectionsEachAlone(response, run) ==
    [accounts |-> IF mapApiToAccountsThrows(response) THEN <<>>
                  ELSE projectAccounts(response, run),
     rings |-> IF mapApiToRingsThrows(response) THEN <<>> ELSE projectRings(response),
     transactions |-> IF mapApiToTransactionsThrows(response) THEN <<>>
                      ELSE projectTransactions(response, run),
     threw |-> \/ mapApiToAccountsThrows(response)
               \/ mapApiToRingsThrows(response)
               \/ mapApiToTransactionsThrows(response)]

\* The three useMemo calls of one render of App, in their order: the first
\* mapper that throws ends the render, and the later ones are not run.
renderProjections(response, run) ==
    LET a == ~mapApiToAccountsThrows(response)
        r == a /\ ~mapApiToRingsThrows(response)
        t == r /\ ~mapApiToTransactionsThrows(response)
    IN [accounts |-> IF a THEN projectAccounts(response, run) ELSE <<>>,
        rings |-> IF r THEN projectRings(response) ELSE <<>>,
        transactions |-> IF t THEN projectTransactions(response, run) ELSE <<>>,
        threw |-> ~t]

\* NetworkGraph is rendered in the analysed view when the graph tab is shown;
\* its effect rebuilds the elements, and cy.destroy() drops them on unmount.
Rerender ==
    elements' = IF hasAnalyzed' /\ ~crashed' /\ currentView' = "graph"
                   THEN graphElements(accounts', transactions', filterRingsOnly',
                                      simulationResult')
                   ELSE <<>>

(***************************************************************************)
(* Initial state: App, UploadScreen mounted, nothing analysed.             *)
(***************************************************************************)
\* RingsTable as mounted: useState('all'), useState('')
TableInit ==
    /\ filterPattern = "all"
    /\ searchTerm = <<>>

PanelInit ==
    /\ sender = <<>>
    /\ receiver = <<>>
    /\ amount = <<>>
    /\ loading = FALSE
    /\ error = Null
    /\ result = Null
    /\ history = <<>>

UploadInit ==
    /\ file = Null
    /\ processing = FALSE
    /\ uploadError = Null
    /\ analyzeCall = FALSE
    /\ analyzeTimer = Null

Init ==
    /\ hasAnalyzed = FALSE
    /\ currentView = "graph"
    /\ selectedAccountId = Undefined
    /\ analysisResponse = Null
    /\ simulatorOpen = FALSE
    /\ simulationResult = Null
    /\ crashed = FALSE
    /\ accounts = <<>>
    /\ rings = <<>>
    /\ transactions = <<>>
    /\ UploadInit
    /\ PanelInit
    /\ hoveredNode = Null
    /\ filterRingsOnly = FALSE
    /\ elements = <<>>
    /\ inflight = {}
    /\ nextId = 0
    /\ suggestions = <<>>
    /\ accountsCall = FALSE
    /\ TableInit

(***************************************************************************)
(* UploadScreen                                                            *)
(***************************************************************************)
\* handleChange / handleDrop
SelectFile ==
    /\ ~hasAnalyzed
    /\ UNCHANGED <<suggestVars, tableVars>>
    /\ ~processing
    /\ file' = [name |-> "tx.csv"]
    /\ uploadError' = Null
    /\ UNCHANGED <<processing, analyzeCall, analyzeTimer>>
    /\ UNCHANGED <<appVars, projVars, panelVars, graphVars, elements, netVars>>

\* startAnalysis up to the await
StartAnalysis ==
    /\ ~hasAnalyzed
    /\ UNCHANGED <<suggestVars, tableVars>>
    /\ ~processing
    /\ file # Null
    /\ processing' = TRUE
    /\ uploadError' = Null
    /\ analyzeCall' = TRUE
    /\ UNCHANGED <<file, analyzeTimer>>
    /\ UNCHANGED <<appVars, projVars, panelVars, graphVars, elements, netVars>>

\* analyzeFile resolved: the logs are written from result.summary and onAnalyze
\* is scheduled; reading a property of a missing summary throws into the catch.
AnalyzeSuccess(response) ==
    /\ analyzeCall
    /\ UNCHANGED <<suggestVars, tableVars>>
    /\ analyzeCall' = FALSE
    /\ IF "summary" \in DOMAIN response
          THEN /\ analyzeTimer' = response
               /\ UNCHANGED <<processing, uploadError>>
          ELSE /\ uploadError' =
                      [message |-> "Cannot read properties of undefined (reading 'total_transactions')"]
               /\ processing' = FALSE
               /\ UNCHANGED analyzeTimer
    /\ UNCHANGED file
    /\ UNCHANGED <<appVars, projVars, panelVars, graphVars, elements, netVars>>

\* analyzeFile threw
AnalyzeFailure(f) ==
    /\ analyzeCall
    /\ UNCHANGED <<suggestVars, tableVars>>
    /\ analyzeCall' = FALSE
    /\ uploadError' = [message |-> analyzeErrorMessage(f)]
    /\ processing' = FALSE
    /\ UNCHANGED <<file, analyzeTimer>>
    /\ UNCHANGED <<appVars, projVars, panelVars, graphVars, elements, netVars>>

(***************************************************************************)
(* App                                                                     *)
(***************************************************************************)
\* The 800 ms timer fires: App.handleAnalyze, then App renders. UploadScreen is
\* unmounted; the analysed view (Sidebar, NetworkGraph, SimulatorPanel) is
\* mounted, unless a useMemo of App throws: the ErrorBoundary is a child of
\* App and does not catch what App's own render throws.
HandleAnalyze(run) ==
    /\ analyzeTimer # Null
    /\ UNCHANGED <<suggestVars, tableVars>>
    /\ hasAnalyzed' = TRUE
    /\ analysisResponse' = analyzeTimer
    /\ accounts' = renderProjections(analyzeTimer, run).accounts
    /\ rings' = renderProjections(analyzeTimer, run).rings
    /\ transactions' = renderProjections(analyzeTimer, run).transactions
    /\ crashed' = renderProjections(analyzeTimer, run).threw
    /\ file' = Null
    /\ processing' = FALSE
    /\ uploadError' = Null
    /\ analyzeCall' = FALSE
    /\ analyzeTimer' = Null
    /\ UNCHANGED <<currentView, selectedAccountId, simulatorOpen, simulationResult>>
    /\ UNCHANGED <<panelVars, graphVars, netVars>>
    /\ Rerender

\* The simulate calls of a SimulatorPanel that was unmounted stay outstanding,
\* their closures holding the dead component's setters and App's setter.
unmountPanel(calls) == {[c EXCEPT !.live = FALSE] : c \in calls}

\* App.handleReset. The analysed view is unmounted, which drops the state of
\* SimulatorPanel and NetworkGraph.
HandleReset ==
    /\ Analysed
    /\ hasAnalyzed' = FALSE
    /\ currentView' = "graph"
    /\ selectedAccountId' = Undefined
    /\ analysisResponse' = Null
    /\ simulationResult' = Null
    /\ simulatorOpen' = FALSE
    /\ accounts' = <<>>
    /\ rings' = <<>>
    /\ transactions' = <<>>
    /\ sender' = <<>>
    /\ receiver' = <<>>
    /\ amount' = <<>>
    /\ loading' = FALSE
    /\ error' = Null
    /\ result' = Null
    /\ history' = <<>>
    /\ hoveredNode' = Null
    /\ filterRingsOnly' = FALSE
    /\ inflight' = unmountPanel(inflight)
    /\ suggestions' = <<>>
    /\ accountsCall' = FALSE
    /\ filterPattern' = "all"
    /\ searchTerm' = <<>>
    /\ UNCHANGED <<nextId, uploadVars, crashed>>
    /\ Rerender

\* Sidebar: onOpenSimulator. isOpen turns true, and the effect of the panel
\* calls fetchAccounts.
OpenSimulator ==
    /\ Analysed
    /\ ~simulatorOpen
    /\ simulatorOpen' = TRUE
    /\ accountsCall' = TRUE
    /\ UNCHANGED <<suggestions, tableVars>>
    /\ UNCHANGED <<crashed, hasAnalyzed, currentView, selectedAccountId, analysisResponse,
                   simulationResult>>
    /\ UNCHANGED <<projVars, uploadVars, panelVars, graphVars, elements, netVars>>

\* SimulatorPanel: onClose (backdrop or X)
CloseSimulator ==
    /\ Analysed
    /\ UNCHANGED <<suggestVars, tableVars>>
    /\ simulatorOpen
    /\ simulatorOpen' = FALSE
    /\ UNCHANGED <<crashed, hasAnalyzed, currentView, selectedAccountId, analysisResponse,
                   simulationResult>>
    /\ UNCHANGED <<projVars, uploadVars, panelVars, graphVars, elements, netVars>>

\* The "Clear Simulation" button of the simulation-mode banner
BannerClear ==
    /\ Analysed
    /\ UNCHANGED <<suggestVars, tableVars>>
    /\ simulationResult # Null
    /\ currentView = "graph"
    /\ simulationResult' = Null
    /\ UNCHANGED <<crashed, hasAnalyzed, currentView, selectedAccountId, analysisResponse,
                   simulatorOpen>>
    /\ UNCHANGED <<projVars, uploadVars, panelVars, graphVars, netVars>>
    /\ Rerender

(***************************************************************************)
(* NetworkGraph                                                            *)
(***************************************************************************)
\* "All Nodes" / "Rings Only"
SetFilterRingsOnly(b) ==
    /\ Analysed
    /\ UNCHANGED <<suggestVars, tableVars>>
    /\ currentView = "graph"
    /\ filterRingsOnly' = b
    /\ UNCHANGED <<appVars, projVars, uploadVars, panelVars, hoveredNode, netVars>>
    /\ Rerender

(***************************************************************************)
(* SimulatorPanel                                                          *)
(***************************************************************************)
HISTORY_LIMIT == 5

\* onChange of an input: fires when the text changes.
SetSender(t) ==
    /\ t # sender
    /\ UNCHANGED <<suggestVars, tableVars>>
    /\ Analysed
    /\ simulatorOpen
    /\ sender' = t
    /\ UNCHANGED <<receiver, amount, loading, error, result, history>>
    /\ UNCHANGED <<appVars, projVars, uploadVars, graphVars, elements, netVars>>

SetReceiver(t) ==
    /\ t # receiver
    /\ UNCHANGED <<suggestVars, tableVars>>
    /\ Analysed
    /\ simulatorOpen
    /\ receiver' = t
    /\ UNCHANGED <<sender, amount, loading, error, result, history>>
    /\ UNCHANGED <<appVars, projVars, uploadVars, graphVars, elements, netVars>>

SetAmount(t) ==
    /\ t # amount
    /\ UNCHANGED <<suggestVars, tableVars>>
    /\ Analysed
    /\ simulatorOpen
    /\ amount' = t
    /\ UNCHANGED <<sender, receiver, loading, error, result, history>>
    /\ UNCHANGED <<appVars, projVars, uploadVars, graphVars, elements, netVars>>

canSubmitNoAmountCheck == trim(sender) # <<>> /\ trim(receiver) # <<>>

canSubmit ==
    /\ trim(sender) # <<>>
    /\ trim(receiver) # <<>>
    /\ GreaterThanZero(parseFloat(amount))

\* The simulate call runSimulation issues, with what its closure holds.
simulateCall ==
    [id |-> nextId, live |-> TRUE, sender_id |-> trim(sender),
     receiver_id |-> trim(receiver), amount |-> parseFloat(amount).val]

\* A click on "Simulate Transaction" (disabled unless canSubmit && !loading),
\* running runSimulation up to its await.
RunSimulation ==
    /\ Analysed
    /\ simulatorOpen
    /\ IF ~canSubmit \/ loading
          THEN UNCHANGED vars
          ELSE /\ nextId < MaxSubmits
               /\ Cardinality(inflight) < MaxOutstanding
               /\ loading' = TRUE
               /\ error' = Null
               /\ inflight' = inflight \cup {simulateCall}
               /\ nextId' = nextId + 1
               /\ UNCHANGED <<sender, receiver, amount, result, history>>
               /\ UNCHANGED <<appVars, projVars, uploadVars, graphVars, elements,
                              suggestVars, tableVars>>

historyEntryOfTrimmedResult(c, res) ==
    [sender |-> c.sender_id, receiver |-> c.receiver_id, amount |-> c.amount,
     result |-> [res EXCEPT !.score_deltas = <<>>]]

\* The entry runSimulation puts in front of the history.
historyEntryOf(c, res) ==
    [sender |-> c.sender_id, receiver |-> c.receiver_id, amount |-> c.amount, result |-> res]

pushHistoryUncapped(prev, entry) == <<entry>> \o prev

\* [entry, ...prev].slice(0, 5)
pushHistory(prev, entry) ==
    SubSeq(<<entry>> \o prev, 1,
           IF Len(prev) + 1 < HISTORY_LIMIT THEN Len(prev) + 1 ELSE HISTORY_LIMIT)

successPanelEffectAnyPanel(c, res) ==
    /\ result' = res
    /\ history' = pushHistory(history, historyEntryOf(c, res))
    /\ loading' = FALSE
    /\ UNCHANGED <<sender, receiver, amount, error>>

\* What the continuation of runSimulation writes into the panel on success.
\* The setters of an unmounted panel do nothing.
successPanelEffect(c, res) ==
    IF c.live
       THEN /\ result' = res
            /\ history' = pushHistory(history, historyEntryOf(c, res))
            /\ loading' = FALSE
            /\ UNCHANGED <<sender, receiver, amount, error>>
       ELSE UNCHANGED panelVars

\* simulateTransaction resolved with the engine's result: the try block after
\* the await, then finally. onSimulationResult is App's setSimulationResult.
\* Once the tree is unmounted no setter acts any more.
SimSuccess(c, impact) ==
    LET res == simulationResultOf(c.id, c.sender_id, c.receiver_id, c.amount, impact)
    IN /\ ~crashed
       /\ UNCHANGED <<suggestVars, tableVars>>
       /\ c \in inflight
       /\ inflight' = inflight \ {c}
       /\ simulationResult' = res
       /\ successPanelEffect(c, res)
       /\ UNCHANGED <<crashed, hasAnalyzed, currentView, selectedAccountId, analysisResponse,
                      simulatorOpen>>
       /\ UNCHANGED <<projVars, uploadVars, graphVars, nextId>>
       /\ Rerender

failurePanelEffectClearing(c, f) ==
    IF c.live
       THEN /\ error' = [message |-> simulateErrorMessage(f)]
            /\ loading' = FALSE
            /\ result' = Null
            /\ UNCHANGED <<sender, receiver, amount, history>>
       ELSE UNCHANGED panelVars

failurePanelEffect(c, f) ==
    IF c.live
       THEN /\ error' = [message |-> simulateErrorMessage(f)]
            /\ loading' = FALSE
            /\ UNCHANGED <<sender, receiver, amount, result, history>>
       ELSE UNCHANGED panelVars

SimFailureRetrying(c, f) ==
    /\ ~crashed
    /\ UNCHANGED <<suggestVars, tableVars>>
    /\ c \in inflight
    /\ nextId < MaxSubmits
    /\ inflight' = (inflight \ {c}) \cup {[c EXCEPT !.id = nextId]}
    /\ nextId' = nextId + 1
    /\ UNCHANGED <<appVars, projVars, uploadVars, panelVars, graphVars, elements>>

\* simulateTransaction threw: catch, then finally.
SimFailure(c, f) ==
    /\ ~crashed
    /\ UNCHANGED <<suggestVars, tableVars>>
    /\ c \in inflight
    /\ inflight' = inflight \ {c}
    /\ failurePanelEffect(c, f)
    /\ UNCHANGED <<appVars, projVars, uploadVars, graphVars, elements, nextId>>

restoredEntryHead(i) == history[1]

\* The entry whose row was clicked: history.map((entry, i) => ... restoreHistory(entry))
restoredEntry(i) == history[i]

\* restoreHistory(history[i])
RestoreHistory(i) ==
    /\ Analysed
    /\ UNCHANGED <<suggestVars, tableVars>>
    /\ simulatorOpen
    /\ i \in 1..Len(history)
    /\ sender' = restoredEntry(i).sender
    /\ receiver' = restoredEntry(i).receiver
    /\ amount' = toString(restoredEntry(i).amount)
    /\ result' = restoredEntry(i).result
    /\ simulationResult' = restoredEntry(i).result
    /\ UNCHANGED <<loading, error, history>>
    /\ UNCHANGED <<crashed, hasAnalyzed, currentView, selectedAccountId, analysisResponse,
                   simulatorOpen>>
    /\ UNCHANGED <<projVars, uploadVars, graphVars, netVars>>
    /\ Rerender

\* clearSimulation ("Clear Simulation Result", shown with a result)
ClearSimulation ==
    /\ Analysed
    /\ UNCHANGED <<suggestVars, tableVars>>
    /\ simulatorOpen
    /\ result # Null
    /\ result' = Null
    /\ simulationResult' = Null
    /\ UNCHANGED <<sender, receiver, amount, loading, error, history>>
    /\ UNCHANGED <<crashed, hasAnalyzed, currentView, selectedAccountId, analysisResponse,
                   simulatorOpen>>
    /\ UNCHANGED <<projVars, uploadVars, graphVars, netVars>>
    /\ Rerender

\* The history section's "Clear" (shown with a non-empty history)
ClearHistory ==
    /\ Analysed
    /\ UNCHANGED <<suggestVars, tableVars>>
    /\ simulatorOpen
    /\ Len(history) > 0
    /\ history' = <<>>
    /\ UNCHANGED <<sender, receiver, amount, loading, error, result>>
    /\ UNCHANGED <<appVars, projVars, uploadVars, graphVars, elements, netVars>>

\* A fetchAccounts call of the mounted panel settles:
\* fetchAccounts().then(setAccounts).catch(() => { }). The number of calls
\* outstanding is not tracked: others may remain (more).
AccountsSettled(o, more) ==
    /\ accountsCall
    /\ accountsCall' = more
    /\ suggestions' = IF fetchAccounts(o).rejected THEN suggestions
                      ELSE fetchAccounts(o).value
    /\ UNCHANGED <<appVars, projVars, uploadVars, panelVars, graphVars, elements, netVars,
                   tableVars>>

(***************************************************************************)
(* Selection and hover                                                     *)
(***************************************************************************)
\* The ids of the nodes cytoscape shows.
nodeIdsShown == {elements[i].data.id : i \in {j \in 1..Len(elements) : IsNodeElement(elements[j])}}

HandleNodeClickToggling(id) ==
    /\ Analysed
    /\ currentView = "graph"
    /\ id \in nodeIdsShown
    /\ selectedAccountId' = IF selectedAccountId = id THEN Undefined ELSE id
    /\ UNCHANGED <<crashed, hasAnalyzed, currentView, analysisResponse, simulatorOpen,
                   simulationResult>>
    /\ UNCHANGED <<projVars, uploadVars, panelVars, graphVars, netVars, suggestVars, tableVars>>
    /\ Rerender

\* cy.on('tap', 'node'): onNodeClick is App.handleNodeClick
HandleNodeClick(id) ==
    /\ Analysed
    /\ currentView = "graph"
    /\ id \in nodeIdsShown
    /\ selectedAccountId' = id
    /\ UNCHANGED <<crashed, hasAnalyzed, currentView, analysisResponse, simulatorOpen,
                   simulationResult>>
    /\ UNCHANGED <<projVars, uploadVars, panelVars, graphVars, netVars, suggestVars, tableVars>>
    /\ Rerender

\* AccountDetailPanel (rendered while selectedAccount is found): onClose
CloseDetail ==
    /\ Analysed
    /\ selectedAccountId # Undefined
    /\ findById(accounts, selectedAccountId)
    /\ selectedAccountId' = Undefined
    /\ UNCHANGED <<crashed, hasAnalyzed, currentView, analysisResponse, simulatorOpen,
                   simulationResult>>
    /\ UNCHANGED <<projVars, uploadVars, panelVars, graphVars, netVars, suggestVars, tableVars>>
    /\ Rerender

\* cy.on('mouseover', 'node'); the pointer position is left out.
MouseOver(id) ==
    /\ Analysed
    /\ currentView = "graph"
    /\ id \in nodeIdsShown
    /\ hoveredNode' = [id |-> id]
    /\ UNCHANGED <<appVars, projVars, uploadVars, panelVars, filterRingsOnly, elements,
                   netVars, suggestVars, tableVars>>

\* cy.on('mouseout', 'node')
MouseOut ==
    /\ Analysed
    /\ currentView = "graph"
    /\ hoveredNode # Null
    /\ hoveredNode.id \in nodeIdsShown
    /\ hoveredNode' = Null
    /\ UNCHANGED <<appVars, projVars, uploadVars, panelVars, filterRingsOnly, elements,
                   netVars, suggestVars, tableVars>>

(***************************************************************************)
(* Sidebar views and the RingsTable                                        *)
(***************************************************************************)
Views == {"graph", "rings", "explorer", "charts"}

\* Sidebar: setView(v). The view that is left is unmounted and its state is
\* dropped: NetworkGraph's hover and filter, RingsTable's filter and search.
SetView(v) ==
    /\ Analysed
    /\ v # currentView
    /\ currentView' = v
    /\ IF currentView = "graph"
          THEN hoveredNode' = Null /\ filterRingsOnly' = FALSE
          ELSE UNCHANGED graphVars
    /\ IF currentView = "rings"
          THEN filterPattern' = "all" /\ searchTerm' = <<>>
          ELSE UNCHANGED tableVars
    /\ UNCHANGED <<crashed, hasAnalyzed, selectedAccountId, analysisResponse, simulatorOpen,
                   simulationResult>>
    /\ UNCHANGED <<projVars, uploadVars, panelVars, netVars, suggestVars>>
    /\ Rerender

\* The <option> values of the pattern select
PatternOptions ==
    {"all", "Circular Loop", "Smurfing Fan-in", "Smurfing Fan-out", "Shell Chain"}

\* onChange of the pattern select
SetFilterPattern(option) ==
    /\ Analysed
    /\ currentView = "rings"
    /\ option # filterPattern
    /\ filterPattern' = option
    /\ UNCHANGED <<appVars, projVars, uploadVars, panelVars, graphVars, elements, netVars,
                   suggestVars, searchTerm>>

\* onChange of the search input
SetSearchTerm(t) ==
    /\ Analysed
    /\ currentView = "rings"
    /\ t # searchTerm
    /\ searchTerm' = t
    /\ UNCHANGED <<appVars, projVars, uploadVars, panelVars, graphVars, elements, netVars,
                   suggestVars, filterPattern>>

\* a.includes(b) for texts
RECURSIVE includes(_, _)
includes(a, b) ==
    IF Len(b) > Len(a) THEN FALSE
    ELSE SubSeq(a, 1, Len(b)) = b \/ (a # <<>> /\ includes(Tail(a), b))

\* toLowerCase over the letters ring ids and search terms are made of
toLowerCase(t) ==
    [i \in 1..Len(t) |-> CASE t[i] = "R" -> "r" [] t[i] = "A" -> "a" [] OTHER -> t[i]]

\* RingsTable: const filteredRings = rings.filter(...)
filteredRings(ringList, pattern, term) ==
    SelectSeq(ringList, LAMBDA ring :
        /\ pattern = "all" \/ ring.patternType = pattern
        /\ includes(toLowerCase(ring.id), toLowerCase(term)))

(***************************************************************************)
(* The session: upload, analysis, reset and the simulator.                 *)
(***************************************************************************)
Next ==
    \/ SelectFile
    \/ StartAnalysis
    \/ \E response \in SessionResponses \cup MalformedResponses : AnalyzeSuccess(response)
    \/ \E f \in AnalyzeFailures : AnalyzeFailure(f)
    \/ \E run \in SessionRuns : HandleAnalyze(run)
    \/ HandleReset
    \/ OpenSimulator
    \/ CloseSimulator
    \/ BannerClear
    \/ \E t \in SenderTexts : SetSender(t)
    \/ \E t \in ReceiverTexts : SetReceiver(t)
    \/ \E t \in AmountTexts : SetAmount(t)
    \/ RunSimulation
    \/ \E c \in inflight, impact \in EngineImpacts : SimSuccess(c, impact)
    \/ \E c \in inflight, f \in SimFailures : SimFailure(c, f)
    \/ \E i \in 1..HISTORY_LIMIT : RestoreHistory(i)
    \/ ClearSimulation
    \/ ClearHistory

Spec == Init /\ [][Next]_vars

(***************************************************************************)
(* The projection and the graph effect over a bounded set of responses and *)
(* simulation results. The upload screen after a reset, the analysis done  *)
(* and its 800 ms timer pending; a simulate call of the session before the *)
(* reset may still be outstanding.                                         *)
(***************************************************************************)
InitGraph ==
    /\ hasAnalyzed = FALSE
    /\ currentView = "graph"
    /\ selectedAccountId = Undefined
    /\ analysisResponse = Null
    /\ simulatorOpen = FALSE
    /\ simulationResult = Null
    /\ crashed = FALSE
    /\ accounts = <<>>
    /\ rings = <<>>
    /\ transactions = <<>>
    /\ file = [name |-> "tx.csv"]
    /\ processing = TRUE
    /\ uploadError = Null
    /\ analyzeCall = FALSE
    /\ analyzeTimer \in GraphResponses
    /\ PanelInit
    /\ hoveredNode = Null
    /\ filterRingsOnly = FALSE
    /\ elements = <<>>
    /\ inflight \in {{}} \cup {{c} : c \in StaleCalls}
    /\ nextId = Cardinality(inflight)
    /\ suggestions = <<>>
    /\ accountsCall = FALSE
    /\ TableInit

NextGraph ==
    \/ \E run \in SessionRuns : HandleAnalyze(run)
    \/ \E b \in BOOLEAN : SetFilterRingsOnly(b)
    \/ \E c \in inflight, impact \in Impacts : SimSuccess(c, impact)
    \/ BannerClear

SpecGraph == InitGraph /\ [][NextGraph]_vars

(***************************************************************************)
(* The mappers over every bounded response and every run: the upload       *)
(* screen with the 800 ms timer of a finished analysis pending.            *)
(***************************************************************************)
InitMapper ==
    /\ hasAnalyzed = FALSE
    /\ currentView = "graph"
    /\ selectedAccountId = Undefined
    /\ analysisResponse = Null
    /\ simulatorOpen = FALSE
    /\ simulationResult = Null
    /\ crashed = FALSE
    /\ accounts = <<>>
    /\ rings = <<>>
    /\ transactions = <<>>
    /\ file = [name |-> "tx.csv"]
    /\ processing = TRUE
    /\ uploadError = Null
    /\ analyzeCall = FALSE
    /\ analyzeTimer \in Responses \cup DisagreeingResponses
    /\ PanelInit
    /\ hoveredNode = Null
    /\ filterRingsOnly = FALSE
    /\ elements = <<>>
    /\ inflight = {}
    /\ nextId = 0
    /\ suggestions = <<>>
    /\ accountsCall = FALSE
    /\ TableInit

NextMapper ==
    \/ \E run \in MapperRuns : HandleAnalyze(run)
    \/ \E b \in BOOLEAN : SetFilterRingsOnly(b)

SpecMapper == InitMapper /\ [][NextMapper]_vars

(***************************************************************************)
(* The analysed view at work: selection, hover, filter, suggestions and    *)
(* the last simulations of a session. An analysis is shown, the simulator  *)
(* is open with its first fetchAccounts call still outstanding, and the    *)
(* latest simulate call succeeded (the earlier ones failed).               *)
(***************************************************************************)
lastCall ==
    [id |-> MaxSubmits - 2, live |-> TRUE, sender_id |-> idA, receiver_id |-> idB,
     amount |-> 7]

lastResult ==
    simulationResultOf(lastCall.id, lastCall.sender_id, lastCall.receiver_id,
                       lastCall.amount, CHOOSE impact \in EngineImpacts : TRUE)

InitPanel ==
    /\ hasAnalyzed = TRUE
    /\ currentView = "graph"
    /\ selectedAccountId = Undefined
    /\ analysisResponse \in EngineResponses
    /\ simulatorOpen = TRUE
    /\ simulationResult = lastResult
    /\ crashed = FALSE
    /\ \E run \in SessionRuns :
           /\ accounts = projectAccounts(analysisResponse, run)
           /\ rings = projectRings(analysisResponse)
           /\ transactions = projectTransactions(analysisResponse, run)
    /\ UploadInit
    /\ sender = <<"A">>
    /\ receiver = idB
    /\ amount = <<"7">>
    /\ loading = FALSE
    /\ error = Null
    /\ result = lastResult
    /\ history = <<historyEntryOf(lastCall, lastResult)>>
    /\ suggestions = <<>>
    /\ hoveredNode = Null
    /\ filterRingsOnly = FALSE
    /\ elements = graphElements(accounts, transactions, filterRingsOnly, simulationResult)
    /\ inflight = {}
    /\ nextId = MaxSubmits - 1
    /\ accountsCall = TRUE
    /\ TableInit

NextPanel ==
    \/ HandleReset
    \/ SelectFile
    \/ StartAnalysis
    \/ \E response \in EngineResponses : AnalyzeSuccess(response)
    \/ \E run \in SessionRuns : HandleAnalyze(run)
    \/ OpenSimulator
    \/ CloseSimulator
    \/ \E o \in AccountsOutcomes, more \in BOOLEAN : AccountsSettled(o, more)
    \/ \E id \in NodeIds : HandleNodeClick(id)
    \/ CloseDetail
    \/ \E id \in NodeIds : MouseOver(id)
    \/ MouseOut
    \/ \E b \in BOOLEAN : SetFilterRingsOnly(b)
    \/ BannerClear
    \/ RunSimulation
    \/ \E c \in inflight, impact \in EngineImpacts : SimSuccess(c, impact)
    \/ \E c \in inflight, f \in SimFailures : SimFailure(c, f)
    \/ \E i \in 1..HISTORY_LIMIT : RestoreHistory(i)
    \/ ClearSimulation

SpecPanel == InitPanel /\ [][NextPanel]_vars

(***************************************************************************)
(* The views of an analysis and the rings table: the upload screen with    *)
(* the 800 ms timer of a finished analysis pending, then the Sidebar and   *)
(* the table's controls.                                                   *)
(***************************************************************************)
SearchTerms == {<<>>, <<"r", "1">>, <<"R", "2">>}

InitRings ==
    /\ hasAnalyzed = FALSE
    /\ currentView = "graph"
    /\ selectedAccountId = Undefined
    /\ analysisResponse = Null
    /\ simulatorOpen = FALSE
    /\ simulationResult = Null
    /\ crashed = FALSE
    /\ accounts = <<>>
    /\ rings = <<>>
    /\ transactions = <<>>
    /\ file = [name |-> "tx.csv"]
    /\ processing = TRUE
    /\ uploadError = Null
    /\ analyzeCall = FALSE
    /\ analyzeTimer \in PatternResponses
    /\ PanelInit
    /\ hoveredNode = Null
    /\ filterRingsOnly = FALSE
    /\ elements = <<>>
    /\ inflight = {}
    /\ nextId = 0
    /\ suggestions = <<>>
    /\ accountsCall = FALSE
    /\ TableInit

NextRings ==
    \/ \E run \in SessionRuns : HandleAnalyze(run)
    \/ \E v \in Views : SetView(v)
    \/ \E option \in PatternOptions : SetFilterPattern(option)
    \/ \E t \in SearchTerms : SetSearchTerm(t)
    \/ \E b \in BOOLEAN : SetFilterRingsOnly(b)
    \/ \E id \in NodeIds : MouseOver(id)

SpecRings == InitRings /\ [][NextRings]_vars

(***************************************************************************)
(* Properties.                                                             *)
(***************************************************************************)
BaseNodeClasses == {"ring-member", "suspicious", "clean"}
BaseEdgeClasses == {"fraud-edge", "normal-edge"}
IsPrefix(p, q) == Len(p) <= Len(q) /\ SubSeq(q, 1, Len(p)) = p

\* C1: the overlay is non-destructive. With no simulation result the element
\* list of the graph effect is exactly the base list built from accounts,
\* transactions and filter; with a result, every base element is still there
\* with the same data, and its classes begin with its base class, the overlay
\* tags only appended after it.
C1_OverlayNonDestructive ==
    LET base == baseElements(accounts, transactions, filterRingsOnly)
    IN /\ simulationResult = Null => elements = base
       /\ simulationResult # Null =>
              \A i \in 1..Len(base) :
                  /\ Head(base[i].classes) \in BaseNodeClasses \cup BaseEdgeClasses
                  /\ \E j \in 1..Len(elements) :
                         /\ elements[j].data = base[i].data
                         /\ IsPrefix(base[i].classes, elements[j].classes)

\* A base element that the overlay tagged twice, under the rings-only filter.
C1_Witness ==
    /\ simulationResult # Null
    /\ filterRingsOnly
    /\ \E j \in 1..Len(elements) :
           /\ elements[j].classes = <<"ring-member", "sim-affected", "sim-cycle">>
    /\ \E j \in 1..Len(elements) : Head(elements[j].classes) \in BaseEdgeClasses

\* C2: the history never holds more than 5 entries; a successful simulation of
\* the mounted panel makes its result the active result (panel and App) and
\* puts its entry at the head of the history, the previous entries following
\* in their order, the last one dropped only when the history already held 5.
C2_HistoryCappedNewestFirst ==
    /\ [](Len(history) <= 5)
    /\ [][\A c \in inflight, impact \in EngineImpacts :
            (c.live /\ SimSuccess(c, impact)) =>
                LET res == simulationResultOf(c.id, c.sender_id, c.receiver_id,
                                              c.amount, impact)
                    kept == IF Len(history) >= 5 THEN SubSeq(history, 1, 4) ELSE history
                IN /\ result' = res
                   /\ simulationResult' = res
                   /\ history' = <<[sender |-> c.sender_id, receiver |-> c.receiver_id,
                                    amount |-> c.amount, result |-> res]>> \o kept]_vars

\* After six successes in a row the history holds the last five, newest first.
C2_Witness ==
    /\ Len(history) = 5
    /\ history[1].result.simulation_id = 5
    /\ history[5].result.simulation_id = 1
    /\ result = history[1].result
    /\ simulationResult = history[1].result

\* C3: a failed simulate call records its error message in the panel that
\* issued it, and neither the submit nor the failure changes the panel's
\* result, App's simulationResult, the history or the stored analysis response.
C3_FailureLeavesResultAndHistory ==
    [][/\ \A c \in inflight, f \in SimFailures :
              SimFailure(c, f) =>
                  /\ c.live => error' = [message |-> simulateErrorMessage(f)]
                  /\ UNCHANGED <<result, simulationResult, history, analysisResponse>>
       /\ (RunSimulation /\ inflight' # inflight) =>
              UNCHANGED <<result, simulationResult, history, analysisResponse>>]_vars

\* A failure recorded while a result is active and the history is not empty.
C3_Witness ==
    /\ error # Null
    /\ ~loading
    /\ result # Null
    /\ simulationResult = result
    /\ Len(history) > 0
    /\ analysisResponse # Null

\* C4: a submit with an empty (trimmed) sender, an empty receiver or an amount
\* that is not a number greater than 0 issues no request and changes neither
\* the active result, the history nor the loading flag.
C4_InvalidSubmitDoesNothing ==
    [][(/\ RunSimulation
        /\ \/ trim(sender) = <<>>
           \/ trim(receiver) = <<>>
           \/ parseFloat(amount).nan
           \/ parseFloat(amount).val <= 0)
       => UNCHANGED <<inflight, nextId, result, simulationResult, history, loading>>]_vars

\* The panel is open on a form whose only fault is an amount of 0, with an
\* earlier result active: the submit is a step of RunSimulation here.
C4_Witness ==
    /\ hasAnalyzed
    /\ simulatorOpen
    /\ ~loading
    /\ trim(sender) # <<>>
    /\ trim(receiver) # <<>>
    /\ amount = <<"0">>
    /\ result # Null
    /\ ENABLED RunSimulation

\* C5: restoring a history entry makes its stored result the active result
\* (panel and App), issues no request and leaves the history unchanged.
C5_RestoreActivatesStoredResult ==
    [][\A i \in 1..Len(history) :
          RestoreHistory(i) =>
              /\ result' = history[i].result
              /\ simulationResult' = history[i].result
              /\ UNCHANGED <<history, inflight, nextId>>]_vars

\* An older entry is the active one: only a restore gets there.
C5_Witness ==
    /\ Len(history) >= 2
    /\ result = history[2].result
    /\ simulationResult = history[2].result
    /\ history[2].result # history[1].result
    /\ inflight = {}

\* C6: a reset discards the active simulation result. Between a reset and the
\* moment the next analysis is shown no simulation can be submitted, so App's
\* simulationResult is absent in every state of the upload screen.
C6_ResetDiscardsActiveResult == ~hasAnalyzed => simulationResult = Null

C8_ConnectionSymmetry ==
    LET count(a, c) == Cardinality({k \in 1..Len(a.connections) : a.connections[k] = c})
        holders(id, c) == {i \in 1..Len(accounts) :
                               accounts[i].id = id /\ count(accounts[i], c) = 1}
    IN /\ \A n \in 1..Len(transactions) :
              LET t == transactions[n]
              IN /\ holders(t.source, [targetId |-> t.target, direction |-> "out",
                                       amount |-> t.amount]) # {}
                 /\ holders(t.target, [targetId |-> t.source, direction |-> "in",
                                       amount |-> t.amount]) # {}
       /\ \A i \in 1..Len(accounts) :
              \A k \in 1..Len(accounts[i].connections) :
                  LET c == accounts[i].connections[k]
                  IN \E n \in 1..Len(transactions) :
                         /\ transactions[n].amount = c.amount
                         /\ IF c.direction = "out"
                               THEN /\ transactions[n].source = accounts[i].id
                                    /\ transactions[n].target = c.targetId
                               ELSE /\ c.direction = "in"
                                    /\ transactions[n].target = accounts[i].id
                                    /\ transactions[n].source = c.targetId

\* Two opposite edges of the same amount between two accounts.
C8_Witness ==
    /\ hasAnalyzed
    /\ Len(transactions) = 2
    /\ transactions[1].source = transactions[2].target
    /\ transactions[1].target = transactions[2].source
    /\ transactions[1].source # transactions[1].target
    /\ transactions[1].amount = transactions[2].amount
    /\ \E i \in 1..Len(accounts) : Len(accounts[i].connections) = 2

\* C9: ring uniqueness. An account has a ringId exactly when some ring of the
\* response lists it, and the ringId is that of the first such ring.
C9_RingUniqueness ==
    hasAnalyzed => \A i \in 1..Len(accounts) :
        LET fr == analysisResponse.fraud_rings
            listing == {k \in 1..Len(fr) : accounts[i].id \in SeqToSet(fr[k].member_accounts)}
        IN /\ (accounts[i].ringId # Undefined) <=> (listing # {})
           /\ listing # {} =>
                  accounts[i].ringId =
                      fr[CHOOSE k \in listing : \A m \in listing : k <= m].ring_id

\* An account listed by two rings carries the first one's id.
C9_Witness ==
    hasAnalyzed /\ \E i \in 1..Len(accounts) :
        LET fr == analysisResponse.fraud_rings
        IN /\ Len(fr) = 2
           /\ fr[1].ring_id # fr[2].ring_id
           /\ accounts[i].id \in SeqToSet(fr[1].member_accounts)
           /\ accounts[i].id \in SeqToSet(fr[2].member_accounts)
           /\ accounts[i].ringId = fr[1].ring_id

\* C10: filter correctness. For either filter value every edge element built
\* from a transaction has its source and its target among the node elements
\* built from accounts in the same run; under the rings-only filter those node
\* elements are exactly the accounts that have a ringId.
C10_FilterCorrectness ==
    LET nodeIds == {elements[j].data.id : j \in
                        {k \in 1..Len(elements) :
                             /\ IsNodeElement(elements[k])
                             /\ Head(elements[k].classes) \in BaseNodeClasses}}
    IN /\ \A j \in 1..Len(elements) :
              (IsEdgeElement(elements[j]) /\ Head(elements[j].classes) \in BaseEdgeClasses)
                  => /\ elements[j].data.source \in nodeIds
                     /\ elements[j].data.target \in nodeIds
       /\ filterRingsOnly =>
              nodeIds = {accounts[i].id : i \in
                             {k \in 1..Len(accounts) : accounts[k].ringId # Undefined}}

\* Under the rings-only filter one transaction is kept and another, whose
\* target has no ring, is dropped.
C10_Witness ==
    /\ filterRingsOnly
    /\ Len(transactions) = 2
    /\ Cardinality({j \in 1..Len(elements) :
                        /\ IsEdgeElement(elements[j])
                        /\ Head(elements[j].classes) \in BaseEdgeClasses}) = 1
    /\ \E n \in 1..2, i, k \in 1..Len(accounts) :
           /\ accounts[i].id = transactions[n].source
           /\ accounts[k].id = transactions[n].target
           /\ accounts[i].ringId # Undefined
           /\ accounts[k].ringId = Undefined

DnaFields ==
    {"velocity", "amtVariance", "fanSymmetry", "temporalCluster", "hopDepth", "amtDecay"}

\* C11: score bounds. Every projected account has its suspicionScore within
\* 0..100 and each of its six behavioralDna fields within 0..100.
C11_ScoreBounds ==
    \A i \in 1..Len(accounts) :
        /\ accounts[i].suspicionScore \in 0..100
        /\ DOMAIN accounts[i].behavioralDna = DnaFields
        /\ \A f \in DnaFields : accounts[i].behavioralDna[f] \in 0..100

\* Accounts at both ends of the score range, one of them with more than five
\* transactions per neighbour, whose velocity is cut at 100.
C11_Witness ==
    /\ hasAnalyzed
    /\ \E i, j \in 1..Len(accounts) :
           /\ accounts[i].suspicionScore = 0
           /\ accounts[j].suspicionScore = 100
           /\ accounts[j].behavioralDna.velocity = 100
           /\ accounts[j].networkStats.txCount * 20 >
                  100 * (accounts[j].inDegree + accounts[j].outDegree)
           /\ accounts[j].behavioralDna.hopDepth = 100

\* C12: idempotence. The collections held for a response are those a further
\* run of the mapper over the same response yields, whatever that run draws
\* from Math.random() and reads from the clock.
C12_MapperIdempotent ==
    (hasAnalyzed /\ analysisResponse # Null) =>
        \A run \in MapperRuns :
            /\ accounts = mapApiToAccounts(analysisResponse, run)
            /\ rings = mapApiToRings(analysisResponse)
            /\ transactions = mapApiToTransactions(analysisResponse, run)

WellFormed(response) ==
    {"graph", "summary", "fraud_rings", "suspicious_accounts"} \subseteq DOMAIN response

\* C13: a response lacking its graph or its summary fails the whole
\* projection. One without summary never reaches the mapper; for one without
\* graph, once it is the stored response none of the Account, FraudRing and
\* Transaction collections is produced.
C13_MalformedFailsWholeProjection ==
    /\ analyzeTimer # Null => "summary" \in DOMAIN analyzeTimer
    /\ analysisResponse # Null =>
           /\ "summary" \in DOMAIN analysisResponse
           /\ "graph" \notin DOMAIN analysisResponse =>
                  (accounts = <<>> /\ rings = <<>> /\ transactions = <<>>)

\* The stored response has rings but no graph, and the render over it threw.
C13_Witness ==
    /\ crashed
    /\ analysisResponse # Null
    /\ "graph" \notin DOMAIN analysisResponse
    /\ "fraud_rings" \in DOMAIN analysisResponse
    /\ Len(analysisResponse.fraud_rings) > 0

\* C14: a payload lacking graph, summary, ring list or suspicious-account list
\* is never scheduled for display nor shown as the analysed view, and no render
\* throws on it.
C14_MalformedPayloadNeverAnalysed ==
    /\ analyzeTimer # Null => WellFormed(analyzeTimer)
    /\ hasAnalyzed => (analysisResponse # Null /\ WellFormed(analysisResponse))
    /\ ~crashed

HasDetail(f) == f.body # Null /\ "detail" \in DOMAIN f.body

C17_SelectionHoverIndependent ==
    [][/\ \A id \in NodeIds :
              HandleNodeClick(id) =>
                  /\ selectedAccountId' = id
                  /\ UNCHANGED <<hasAnalyzed, currentView, analysisResponse, simulatorOpen,
                                 simulationResult, crashed, projVars, uploadVars, panelVars,
                                 graphVars, elements, netVars, suggestVars, tableVars>>
       /\ CloseDetail => selectedAccountId' = Undefined /\ UNCHANGED hoveredNode
       /\ \A id \in NodeIds : MouseOver(id) => UNCHANGED selectedAccountId
       /\ MouseOut => UNCHANGED selectedAccountId]_vars

\* One node is selected while another one is hovered.
C17_Witness ==
    /\ selectedAccountId # Undefined
    /\ hoveredNode # Null
    /\ hoveredNode.id # selectedAccountId
    /\ selectedAccountId \in nodeIdsShown

\* The property names of a document shaped like an AnalysisResponse, at every
\* level of it.
fieldNamesOf(json) ==
    LET namesIn(list) == UNION {DOMAIN list[i] : i \in 1..Len(list)}
    IN DOMAIN json
       \cup (IF "graph" \in DOMAIN json
                THEN DOMAIN json.graph \cup namesIn(json.graph.nodes)
                     \cup namesIn(json.graph.edges)
                ELSE {})
       \cup (IF "summary" \in DOMAIN json THEN DOMAIN json.summary ELSE {})
       \cup (IF "fraud_rings" \in DOMAIN json THEN namesIn(json.fraud_rings) ELSE {})
       \cup (IF "suspicious_accounts" \in DOMAIN json
                THEN namesIn(json.suspicious_accounts) ELSE {})

\* The fields the mappers add to Account, FraudRing and Transaction.
DerivedFields ==
    {"suspicionScore", "patterns", "status", "inDegree", "outDegree", "volume", "ringId",
     "behavioralDna", "networkStats", "connections", "patternType", "memberCount",
     "riskScore", "accountIds", "amount", "timestamp", "isFraud", "accounts", "rings",
     "transactions"}

engineResultOf(entry) ==
    simulationResultOf(entry.result.simulation_id, entry.sender, entry.receiver,
                       entry.amount, CHOOSE impact \in EngineImpacts : TRUE)

\* C19: simulation and selection never feed back into the projection, and the
\* client never mutates a SimulationResult. accounts, rings and transactions
\* change only in a step that changes the stored response (never on submit,
\* clear or restore of a simulation, filter toggle, select or hover); every
\* history entry's result is what the engine returned for its call, and the
\* panel's and App's active result are each an engine result of the session.
C19_NoFeedbackIntoProjection ==
    /\ [](/\ \A i \in 1..Len(history) : history[i].result = engineResultOf(history[i])
          /\ result # Null =>
                 \E id \in 0..(nextId - 1) :
                     result = simulationResultOf(id, idA, idB, 7,
                                                 CHOOSE impact \in EngineImpacts : TRUE)
          /\ simulationResult # Null =>
                 \E id \in 0..(nextId - 1) :
                     simulationResult = simulationResultOf(id, idA, idB, 7,
                                            CHOOSE impact \in EngineImpacts : TRUE))
    /\ [][/\ projVars' # projVars => analysisResponse' # analysisResponse
          /\ history' # history =>
                 \/ history' = <<>>
                 \/ /\ Len(history') > 0
                    /\ Tail(history') = SubSeq(history, 1, Len(history') - 1)]_vars

\* Two engine results in the history, the older one restored and overlaid on
\* the rings-only graph while a node is selected and one hovered.
C19_Witness ==
    /\ Analysed
    /\ Len(history) = 2
    /\ result = history[2].result
    /\ simulationResult = result
    /\ filterRingsOnly
    /\ selectedAccountId # Undefined
    /\ hoveredNode # Null
    /\ \E i \in 1..Len(elements) : "sim-affected" \in SeqToSet(elements[i].classes)

\* C20: no request is retried automatically. Every analyze call and every
\* simulate call is issued by one submit action of the user (the Analyze
\* button, the Simulate button), one call per action; a step in which a
\* request fails issues no request, and none is outstanding afterwards unless
\* it was already outstanding.
C20_NoAutomaticRetry ==
    [][/\ (analyzeCall' /\ ~analyzeCall) => StartAnalysis
       /\ nextId' # nextId =>
              /\ RunSimulation
              /\ nextId' = nextId + 1
              /\ inflight' = inflight \cup {simulateCall}
       /\ ~(inflight' \subseteq inflight \cup unmountPanel(inflight)) => nextId' # nextId
       /\ \A f \in AnalyzeFailures : AnalyzeFailure(f) => ~analyzeCall' /\ UNCHANGED netVars
       /\ \A c \in inflight, f \in SimFailures :
              SimFailure(c, f) =>
                  inflight' = inflight \ {c} /\ UNCHANGED <<nextId, analyzeCall>>]_vars

\* One simulate call was issued and failed, and nothing is outstanding.
C20_Witness ==
    /\ Analysed
    /\ error # Null
    /\ ~loading
    /\ nextId = 1
    /\ inflight = {}
    /\ ~analyzeCall

\* The accounts and transactions that survive the filter, stated over the
\* collections App holds.
survivingAccounts ==
    {i \in 1..Len(accounts) : ~filterRingsOnly \/ Truthy(accounts[i].ringId)}

survivingTransactions ==
    {k \in 1..Len(transactions) :
        /\ \E i \in survivingAccounts : accounts[i].id = transactions[k].source
        /\ \E i \in survivingAccounts : accounts[i].id = transactions[k].target}

\* C21: each surviving account becomes exactly one node element, whose base
\* class is ring-member when it has a ringId, otherwise suspicious when its
\* score is greater than 50, otherwise clean; each surviving transaction
\* becomes exactly one edge element, classed fraud-edge when isFraud, else
\* normal-edge.
C21_BaseClassification ==
    Analysed =>
        /\ \A i \in survivingAccounts :
               LET a == accounts[i]
                   shown == {j \in 1..Len(elements) :
                                IsNodeElement(elements[j]) /\ elements[j].data.id = a.id}
               IN /\ Cardinality(shown) = 1
                  /\ \A j \in shown :
                         Head(elements[j].classes) =
                             IF Truthy(a.ringId) THEN "ring-member"
                             ELSE IF a.suspicionScore > 50 THEN "suspicious" ELSE "clean"
        /\ \A k \in survivingTransactions :
               LET t == transactions[k]
                   shown == {j \in 1..Len(elements) :
                                IsEdgeElement(elements[j]) /\ elements[j].data.id = t.id}
               IN /\ Cardinality(shown) = 1
                  /\ \A j \in shown :
                         /\ elements[j].data.source = t.source
                         /\ elements[j].data.target = t.target
                         /\ Head(elements[j].classes) =
                                IF t.isFraud THEN "fraud-edge" ELSE "normal-edge"

\* An account of score exactly 50 outside every ring is shown clean, next to
\* a ring member of low score, a fraud edge and a normal edge.
C21_Witness ==
    /\ Analysed
    /\ \E i \in survivingAccounts, j \in 1..Len(elements) :
           /\ accounts[i].suspicionScore = 50
           /\ ~Truthy(accounts[i].ringId)
           /\ elements[j].data.id = accounts[i].id
           /\ elements[j].classes = <<"clean">>
    /\ \E i \in survivingAccounts, j \in 1..Len(elements) :
           /\ accounts[i].suspicionScore <= 50
           /\ elements[j].data.id = accounts[i].id
           /\ Head(elements[j].classes) = "ring-member"
    /\ \E j \in 1..Len(elements) : elements[j].classes = <<"fraud-edge">>
    /\ \E j \in 1..Len(elements) : elements[j].classes = <<"normal-edge">>

\* The positions of the elements that come after the base list.
addedElements ==
    (Len(baseElements(accounts, transactions, filterRingsOnly)) + 1)..Len(elements)

\* The ids of the node elements of the filtered base list.
baseNodeIds ==
    LET base == baseElements(accounts, transactions, filterRingsOnly)
    IN {base[j].data.id : j \in {k \in 1..Len(base) : IsNodeElement(base[k])}}

tagCount(el, tag) == Cardinality({k \in 1..Len(el.classes) : el.classes[k] = tag})

\* C23: overlay tags are additive and exact. After the overlay an element,
\* base or synthesized, carries sim-affected exactly when its id is an
\* account_id of the result's score_deltas and sim-cycle exactly when its id
\* is in some new cycle's member list; each tag occurs at most once, and the
\* class the element had before the tags stays in front.
C23_OverlayTagsExact ==
    (Analysed /\ simulationResult # Null) =>
        \A j \in 1..Len(elements) :
            LET el == elements[j]
                affected == \E i \in 1..Len(simulationResult.score_deltas) :
                                simulationResult.score_deltas[i].account_id = el.data.id
                inCycle == \E i \in 1..Len(simulationResult.new_cycles_created) :
                               \E k \in 1..Len(simulationResult.new_cycles_created[i].cycle_members) :
                                   simulationResult.new_cycles_created[i].cycle_members[k] = el.data.id
            IN /\ tagCount(el, "sim-affected") = IF affected THEN 1 ELSE 0
               /\ tagCount(el, "sim-cycle") = IF inCycle THEN 1 ELSE 0
               /\ Head(el.classes) \in BaseNodeClasses \cup BaseEdgeClasses
                                       \cup {"sim-node", "sim-edge"}
               /\ Len(el.classes) = 1 + tagCount(el, "sim-affected") + tagCount(el, "sim-cycle")

\* A base node carries both tags, a synthesized node carries both, a node that
\* is a member of two new cycles carries sim-cycle once, and another element
\* carries none.
C23_Witness ==
    /\ Analysed
    /\ simulationResult # Null
    /\ \E j \in 1..Len(elements) :
           elements[j].classes \in {<<c, "sim-affected", "sim-cycle">> : c \in BaseNodeClasses}
    /\ \E j \in 1..Len(elements) :
           elements[j].classes = <<"sim-node", "sim-affected", "sim-cycle">>
    /\ \E j \in 1..Len(elements) :
           /\ elements[j].data.id = idB
           /\ tagCount(elements[j], "sim-cycle") = 1
           /\ tagCount(elements[j], "sim-affected") = 0
    /\ \E j \in 1..Len(elements) : Len(elements[j].classes) = 1

\* The sum of the amounts of the connections of one direction.
RECURSIVE connectionTotal(_, _)
connectionTotal(conns, direction) ==
    IF conns = <<>> THEN 0
    ELSE (IF Head(conns).direction = direction THEN Head(conns).amount ELSE 0)
         + connectionTotal(Tail(conns), direction)

\* C24: for every projected account, networkStats.totalIn is the sum of the
\* amounts of its `in` connections and networkStats.totalOut the sum of the
\* amounts of its `out` connections (amounts are integers).
C24_TotalsAgreeWithConnections ==
    \A i \in 1..Len(accounts) :
        /\ accounts[i].networkStats.totalIn = connectionTotal(accounts[i].connections, "in")
        /\ accounts[i].networkStats.totalOut = connectionTotal(accounts[i].connections, "out")

\* An account with incoming and outgoing connections of different totals,
\* neither of them the volume the engine reports for the node.
C24_Witness ==
    /\ hasAnalyzed
    /\ \E i \in 1..Len(accounts) :
           /\ Len(accounts[i].connections) >= 2
           /\ accounts[i].networkStats.totalIn > 0
           /\ accounts[i].networkStats.totalOut > 0
           /\ accounts[i].networkStats.totalIn # accounts[i].networkStats.totalOut
           /\ accounts[i].networkStats.totalIn # accounts[i].volume

\* C25: the simulator's loading indication is on in every state in which a
\* simulate request is outstanding.
C25_LoadingWhileOutstanding == inflight # {} => loading

\* C26: in every reachable state the result shown in the simulator panel and
\* the active overlay held by App are the same, both absent or both the same
\* SimulationResult.
C26_PanelAndOverlayAgree == result = simulationResult

\* C27: the ids of the elements handed to cytoscape are pairwise distinct,
\* for every simulation result.
C27_ElementIdsDistinct ==
    \A i, j \in 1..Len(elements) : elements[i].data.id = elements[j].data.id => i = j

\* C28: ring membership is used consistently within one projected account.
\* behavioralDna.hopDepth has the ring-member form min(100, 60 + round(score *
\* 0.4)) exactly when the account has a ringId, and the form min(100,
\* round(score * 0.3)) exactly when it has none, for every response.
C28_HopDepthFollowsRingId ==
    \A i \in 1..Len(accounts) :
        accounts[i].behavioralDna.hopDepth =
            IF Truthy(accounts[i].ringId)
               THEN Min(100, 60 + roundDiv(accounts[i].suspicionScore * 4, 10))
               ELSE Min(100, roundDiv(accounts[i].suspicionScore * 3, 10))

\* C29: at most one simulate request is outstanding at any time.
C29_AtMostOneOutstanding == Cardinality(inflight) <= 1

\* The pattern types mapPatternType yields for the engine's tags.
MappedPatternTypes == {mapPatternType(t) : t \in BackendPatternTypes}

\* C30: every projected ring is reachable through the rings table's pattern
\* filter. Each ring of a pattern type mapped from a known tag is listed under
\* some option other than `all` (with no search term), and an option other
\* than `all`, once chosen, is one of those pattern types.
C30_EveryRingReachableByFilter ==
    /\ \A i \in 1..Len(rings) :
           rings[i].patternType \in MappedPatternTypes =>
               \E option \in PatternOptions \ {"all"} :
                   rings[i] \in SeqToSet(filteredRings(rings, option, <<>>))
    /\ (currentView = "rings" /\ filterPattern # "all") =>
           filterPattern \in MappedPatternTypes

====
